---------------------------- MODULE Spec2Model ----------------------------
(***************************************************************************)
(* Orbital-optimized MP2 (OMP2) reference implementation:                  *)
(* Tutorials/10_Orbital_Optimized_Methods/10a_orbital-optimized-mp2.ipynb  *)
(*                                                                         *)
(* The model follows the notebook statement by statement.  NumPy floats    *)
(* are modelled as exact rationals extended with the IEEE-754 non-finite   *)
(* values: a number is a pair <<n, d>> with d >= 0 in lowest terms,        *)
(* d = 0 encoding +inf (<<1,0>>), -inf (<<-1,0>>) and NaN (<<0,0>>).       *)
(* Rounding and the sign of zero are not modelled.                         *)
(***************************************************************************)
EXTENDS Integers, Sequences, FiniteSets, TLC

(***************************************************************************)
(* Bounds of the model.                                                    *)
(***************************************************************************)
\* largest configured MAXITER explored (the notebook sets 40)
MaxMAXITER == 3

(***************************************************************************)
(* Floating-point numbers (numpy float64), exact part + non-finite values. *)
(***************************************************************************)
Zero == <<0, 1>>
One == <<1, 1>>
Two == <<2, 1>>
Half == <<1, 2>>
Quarter == <<1, 4>>
NaN == <<0, 0>>
PInf == <<1, 0>>
NInf == <<-1, 0>>

IAbs(n) == IF n < 0 THEN -n ELSE n
Sgn(n) == IF n < 0 THEN -1 ELSE IF n > 0 THEN 1 ELSE 0

RECURSIVE GCD(_, _)
GCD(a, b) == IF b = 0 THEN a ELSE GCD(b, a % b)

\* lowest terms, positive denominator; n/0 collapses to +inf, -inf or NaN
Norm(n, d) ==
    IF d = 0 THEN <<Sgn(n), 0>>
    ELSE LET g == GCD(IAbs(n), IAbs(d))
             s == IF d < 0 THEN -1 ELSE 1
         IN  <<s * (n \div g), s * (d \div g)>>

FromInt(n) == <<n, 1>>
IsFinite(x) == x[2] # 0
IsNaN(x) == x = NaN

Neg(x) == <<-x[1], x[2]>>

\* IEEE addition: inf + inf = inf, inf + (-inf) = NaN, NaN absorbs
Add(x, y) ==
    IF x[2] = 0 /\ y[2] = 0 THEN (IF x = y THEN x ELSE NaN)
    ELSE IF x[2] = 0 THEN x
    ELSE IF y[2] = 0 THEN y
    ELSE LET g == GCD(x[2], y[2])
         IN  Norm(x[1] * (y[2] \div g) + y[1] * (x[2] \div g), (x[2] \div g) * y[2])

Sub(x, y) == Add(x, Neg(y))

\* IEEE multiplication: 0 * inf = NaN
Mul(x, y) ==
    IF x[2] = 0 \/ y[2] = 0 THEN Norm(x[1] * y[1], x[2] * y[2])
    ELSE LET g1 == GCD(IAbs(x[1]), y[2])
             g2 == GCD(IAbs(y[1]), x[2])
         IN  Norm((x[1] \div g1) * (y[1] \div g2), (x[2] \div g2) * (y[2] \div g1))

\* 1/x: 1/0 = +inf, 1/inf = 0, 1/NaN = NaN
Recip(x) ==
    IF x[1] < 0 THEN Norm(-x[2], -x[1]) ELSE Norm(x[2], x[1])

\* IEEE division: x/0 = +-inf for x # 0, 0/0 = NaN, no exception is raised
Div(x, y) ==
    IF y[2] = 0 /\ x[2] = 0 THEN NaN
    ELSE IF x[2] = 0 /\ y[1] < 0 THEN Neg(x)
    ELSE IF x[2] = 0 THEN x
    ELSE Mul(x, Recip(y))

FAbs(x) == <<IAbs(x[1]), x[2]>>

\* a/b < c/d for a, c >= 0 and b, d > 0, by continued fractions
RECURSIVE LessPos(_, _, _, _)
LessPos(a, b, c, d) ==
    LET q1 == a \div b
        q2 == c \div d
        r1 == a % b
        r2 == c % d
    IN  IF q1 # q2 THEN q1 < q2
        ELSE IF r2 = 0 THEN FALSE
        ELSE IF r1 = 0 THEN TRUE
        ELSE LessPos(d, r2, b, r1)

\* IEEE "<": every comparison with NaN is false
Less(x, y) ==
    IF IsNaN(x) \/ IsNaN(y) \/ x = y THEN FALSE
    ELSE IF x = PInf \/ y = NInf THEN FALSE
    ELSE IF x = NInf \/ y = PInf THEN TRUE
    ELSE IF x[1] < 0 /\ y[1] >= 0 THEN TRUE
    ELSE IF x[1] >= 0 /\ y[1] < 0 THEN FALSE
    ELSE IF x[1] >= 0 THEN LessPos(x[1], x[2], y[1], y[2])
    ELSE LessPos(-y[1], y[2], -x[1], x[2])

\* IEEE "==": NaN equals nothing, itself included
FEq(x, y) == ~IsNaN(x) /\ ~IsNaN(y) /\ x = y

\* sum of the values of f over the finite set S
RECURSIVE SumSet(_, _)
SumSet(f, S) ==
    IF S = {} THEN Zero
    ELSE LET x == CHOOSE y \in S : TRUE
         IN  Add(f[x], SumSet(f, S \ {x}))

(***************************************************************************)
(* Index ranges: the slices o = slice(None, nocc), v = slice(nocc, None).  *)
(* Arrays are functions on tuples of absolute spin-orbital indices         *)
(* 0..nso-1; t_amp, which the notebook indexes from 0 in every axis, is    *)
(* indexed here by the orbitals its axes stand for (v, v, o, o).           *)
(***************************************************************************)
Idx(n) == 0 .. (n - 1)
OccSlice(no) == 0 .. (no - 1)
VirtSlice(n, no) == no .. (n - 1)

\* an array returned by a NumPy call holds its entries: they are computed
\* once, not at every access (f @@ <<>> is f, with its entries enumerated)
ndarray(f) == f @@ <<>>

zeros2(n) == [p \in Idx(n), q \in Idx(n) |-> Zero]
zeros4(n) == [p \in Idx(n), q \in Idx(n), r \in Idx(n), s \in Idx(n) |-> Zero]
identity(n) == [p \in Idx(n), q \in Idx(n) |-> IF p = q THEN One ELSE Zero]

\* M1.dot(M2)
dot(M1, M2, n) ==
    [p \in Idx(n), q \in Idx(n) |->
        SumSet([k \in Idx(n) |-> Mul(M1[p, k], M2[k, q])], Idx(n))]

(***************************************************************************)
(* AO to MO transformation functions.                                      *)
(***************************************************************************)
\* np.einsum('pQ, pP -> PQ', np.einsum('pq, qQ -> pQ', hao, C), C)
ao_to_mo(hao_, C_, n) ==
    LET R == Idx(n)
        inner == ndarray([p \in R, Q \in R |->
                     SumSet([q \in R |-> Mul(hao_[p, q], C_[q, Q])], R)])
    IN  [P \in R, Q \in R |->
            SumSet([p \in R |-> Mul(inner[p, Q], C_[p, P])], R)]

\* the four nested einsum calls, innermost (index s) first
ao_to_mo_tei(gao_, C_, n) ==
    LET R == Idx(n)
        leg_s == ndarray([p \in R, q \in R, r \in R, S \in R |->
                     SumSet([s \in R |-> Mul(gao_[p, q, r, s], C_[s, S])], R)])
        leg_r == ndarray([p \in R, q \in R, RR \in R, S \in R |->
                     SumSet([r \in R |-> Mul(leg_s[p, q, r, S], C_[r, RR])], R)])
        leg_q == ndarray([p \in R, Q \in R, RR \in R, S \in R |->
                     SumSet([q \in R |-> Mul(leg_r[p, q, RR, S], C_[q, Q])], R)])
    IN  [P \in R, Q \in R, RR \in R, S \in R |->
            SumSet([p \in R |-> Mul(leg_q[p, Q, RR, S], C_[p, P])], R)]

(***************************************************************************)
(* The statements of the iteration loop, as functions of what they read.   *)
(***************************************************************************)
\* f = hmo + np.einsum('piqi -> pq', gmo[:, o, :, o])
Fock(hmo_, gmo_, n, no) ==
    [p \in Idx(n), q \in Idx(n) |->
        Add(hmo_[p, q], SumSet([i \in OccSlice(no) |-> gmo_[p, i, q, i]], OccSlice(no)))]

\* fprime = f.copy(); np.fill_diagonal(fprime, 0)
OffDiagonal(f_, n) ==
    [p \in Idx(n), q \in Idx(n) |-> IF p = q THEN Zero ELSE f_[p, q]]

\* eps = f.diagonal()
Diagonal(f_, n) == [p \in Idx(n) |-> f_[p, p]]

\* - eps[v, x, x, x] - eps[x, v, x, x] + eps[x, x, o, x] + eps[x, x, x, o]
AmpDenominator(eps_, a, b, i, j) ==
    Add(Add(Sub(Neg(eps_[a]), eps_[b]), eps_[i]), eps_[j])

\* t1, t2, t3, their antisymmetrised sum, and the in-place division
UpdateAmp(gmo_, fprime_, eps_, t_, n, no) ==
    LET o == OccSlice(no)
        v == VirtSlice(n, no)
        t2 == ndarray([a \in v, b \in v, i \in o, j \in o |->
                  SumSet([c \in v |-> Mul(fprime_[a, c], t_[c, b, i, j])], v)])
        t3 == ndarray([a \in v, b \in v, i \in o, j \in o |->
                  SumSet([k \in o |-> Mul(fprime_[k, i], t_[a, b, k, j])], o)])
    IN  [a \in v, b \in v, i \in o, j \in o |->
            Div(Add(Sub(Sub(Add(gmo_[a, b, i, j], t2[a, b, i, j]), t2[b, a, i, j]),
                        t3[a, b, i, j]), t3[a, b, j, i]),
                AmpDenominator(eps_, a, b, i, j))]

\* t_amp.T reverses all four axes: t_amp.T[i, j, a, b] = t_amp[b, a, j, i]
tT(t_, i, j, a, b) == t_[b, a, j, i]

\* the two blocks added to (+=, -=) rather than assigned:
\* opdm_corr[v, v] += (1/2)*np.einsum('ijac,bcij -> ba', t_amp.T, t_amp)
\* opdm_corr[o, o] -= (1/2)*np.einsum('jkab,abik -> ji', t_amp.T, t_amp)
\* the other two blocks keep what the array held
BuildOpdmCorr_accumulate(opdm_corr_, t_, n, no) ==
    LET o == OccSlice(no)
        v == VirtSlice(n, no)
    IN  [p \in Idx(n), q \in Idx(n) |->
            IF p \in v /\ q \in v
            THEN Add(opdm_corr_[p, q], Mul(Half, SumSet([i \in o |-> SumSet([j \in o |-> SumSet([c \in v |->
                        Mul(tT(t_, i, j, q, c), t_[p, c, i, j])], v)], o)], o)))
            ELSE IF p \in o /\ q \in o
            THEN Add(opdm_corr_[p, q], Mul(Neg(Half), SumSet([k \in o |-> SumSet([a \in v |-> SumSet([b \in v |->
                        Mul(tT(t_, p, k, a, b), t_[a, b, q, k])], v)], v)], o)))
            ELSE opdm_corr_[p, q]]

\* opdm_corr[v, v] = (1/2)*np.einsum('ijac,bcij -> ba', t_amp.T, t_amp)
\* opdm_corr[o, o] = -(1/2)*np.einsum('jkab,abik -> ji', t_amp.T, t_amp)
\* the other two blocks keep what the array held
BuildOpdmCorr(opdm_corr_, t_, n, no) ==
    LET o == OccSlice(no)
        v == VirtSlice(n, no)
    IN  [p \in Idx(n), q \in Idx(n) |->
            IF p \in v /\ q \in v
            THEN Mul(Half, SumSet([i \in o |-> SumSet([j \in o |-> SumSet([c \in v |->
                        Mul(tT(t_, i, j, q, c), t_[p, c, i, j])], v)], o)], o))
            ELSE IF p \in o /\ q \in o
            THEN Mul(Neg(Half), SumSet([k \in o |-> SumSet([a \in v |-> SumSet([b \in v |->
                        Mul(tT(t_, p, k, a, b), t_[a, b, q, k])], v)], v)], o))
            ELSE opdm_corr_[p, q]]

\* opdm_ref = np.zeros((nso, nso)); opdm_ref[o, o] = np.identity(nocc)
OpdmRef(n, no) ==
    [p \in Idx(n), q \in Idx(n) |-> IF p = q /\ p \in OccSlice(no) THEN One ELSE Zero]

\* opdm = opdm_corr + opdm_ref
MatAdd(M1, M2, n) == [p \in Idx(n), q \in Idx(n) |-> Add(M1[p, q], M2[p, q])]

\* tpdm_corr[v, v, o, o] = t_amp; tpdm_corr[o, o, v, v] = t_amp.T
BuildTpdmCorr(tpdm_corr_, t_, n, no) ==
    LET o == OccSlice(no)
        v == VirtSlice(n, no)
    IN  [p \in Idx(n), q \in Idx(n), r \in Idx(n), s \in Idx(n) |->
            IF p \in v /\ q \in v /\ r \in o /\ s \in o THEN t_[p, q, r, s]
            ELSE IF p \in o /\ q \in o /\ r \in v /\ s \in v THEN tT(t_, p, q, r, s)
            ELSE tpdm_corr_[p, q, r, s]]

\* tpdm2, tpdm3 and the seven-term sum
BuildTpdm(tpdm_corr_, opdm_corr_, opdm_ref_, n) ==
    LET R == Idx(n)
        tpdm2 == [r \in R, s \in R, p \in R, q \in R |-> Mul(opdm_corr_[r, p], opdm_ref_[s, q])]
        tpdm3 == [r \in R, s \in R, p \in R, q \in R |-> Mul(opdm_ref_[r, p], opdm_ref_[s, q])]
    IN  [r \in R, s \in R, p \in R, q \in R |->
            Sub(Add(Add(Sub(Sub(Add(tpdm_corr_[r, s, p, q],
                                    tpdm2[r, s, p, q]),
                                tpdm2[s, r, p, q]),
                            tpdm2[r, s, q, p]),
                        tpdm2[s, r, q, p]),
                    tpdm3[r, s, p, q]),
                tpdm3[s, r, p, q])]

\* F = np.einsum('pr,rq->pq', hmo, opdm) + (1/2) * np.einsum('prst,stqr -> pq', gmo, tpdm)
GeneralizedFock(hmo_, gmo_, opdm_, tpdm_, n) ==
    LET R == Idx(n)
    IN  [p \in R, q \in R |->
            Add(SumSet([r \in R |-> Mul(hmo_[p, r], opdm_[r, q])], R),
                Mul(Half, SumSet([r \in R |-> SumSet([s \in R |-> SumSet([t \in R |->
                        Mul(gmo_[p, r, s, t], tpdm_[s, t, q, r])], R)], R)], R)))]

\* the same quotient taken over the whole array, without the slices
NewtonStep_unsliced(X_, F_, eps_, n, no) ==
    [p \in Idx(n), q \in Idx(n) |->
        Div(Sub(F_[p, q], F_[q, p]), Add(Neg(eps_[p]), eps_[q]))]

\* X[v, o] = ((F - F.T)[v, o])/(- eps[v, x] + eps[x, o]); the other blocks keep
\* what the array held
NewtonStep(X_, F_, eps_, n, no) ==
    [p \in Idx(n), q \in Idx(n) |->
        IF p \in VirtSlice(n, no) /\ q \in OccSlice(no)
        THEN Div(Sub(F_[p, q], F_[q, p]), Add(Neg(eps_[p]), eps_[q]))
        ELSE X_[p, q]]

\* X - X.T
Generator(X_, n) == [p \in Idx(n), q \in Idx(n) |-> Sub(X_[p, q], X_[q, p])]

\* E_OMP2 = E_nuc + np.einsum('pq,qp ->', hmo, opdm)
\*          + (1/4)*np.einsum('pqrs,rspq ->', gmo, tpdm)
Energy(E_nuc_, hmo_, gmo_, opdm_, tpdm_, n) ==
    LET R == Idx(n)
    IN  Add(Add(E_nuc_,
                SumSet([p \in R |-> SumSet([q \in R |->
                    Mul(hmo_[p, q], opdm_[q, p])], R)], R)),
            Mul(Quarter, SumSet([p \in R |-> SumSet([q \in R |->
                    SumSet([r \in R |-> SumSet([s \in R |->
                        Mul(gmo_[p, q, r, s], tpdm_[r, s, p, q])], R)], R)], R)], R)))

(***************************************************************************)
(* scipy.linalg.expm.  SciPy evaluates the exponential by diagonal Pade    *)
(* approximants r_m(A) = q_m(A)^-1 p_m(A); the model evaluates the lowest  *)
(* one, r_1(A) = (2I - A)^-1 (2I + A), exactly.                            *)
(***************************************************************************)
Remove(seq, k) == SubSeq(seq, 1, k - 1) \o SubSeq(seq, k + 1, Len(seq))
IdxSeq(n) == [k \in 1 .. n |-> k - 1]

\* determinant of the minor of M on the rows and columns listed
RECURSIVE Det(_, _, _)
Det(M, rows, cols) ==
    IF rows = <<>> THEN One
    ELSE SumSet([k \in 1 .. Len(cols) |->
                    Mul(IF k % 2 = 1 THEN M[rows[1], cols[k]] ELSE Neg(M[rows[1], cols[k]]),
                        Det(M, Tail(rows), Remove(cols, k)))],
                1 .. Len(cols))

\* inverse by cofactors
Inverse(M, n) ==
    LET d == Det(M, IdxSeq(n), IdxSeq(n))
    IN  ndarray([p \in Idx(n), q \in Idx(n) |->
            LET c == Det(M, Remove(IdxSeq(n), q + 1), Remove(IdxSeq(n), p + 1))
            IN  Div(IF (p + q) % 2 = 0 THEN c ELSE Neg(c), d)])

expm(A, n) ==
    LET num == [p \in Idx(n), q \in Idx(n) |-> Add(IF p = q THEN Two ELSE Zero, A[p, q])]
        den == [p \in Idx(n), q \in Idx(n) |-> Sub(IF p = q THEN Two ELSE Zero, A[p, q])]
    IN  dot(Inverse(den, n), num, n)

AllFinite(T) == \A k \in DOMAIN T : IsFinite(T[k])
AllNaN(T) == [k \in DOMAIN T |-> NaN]

(***************************************************************************)
(* Program options.                                                        *)
(***************************************************************************)
\* E_conv = 1.0e-8
E_conv == <<1, 100000000>>

(***************************************************************************)
(* State.  hao, gao, E_nuc, nso, nocc, MAXITER and the initial C are what  *)
(* the notebook obtains from Psi4 and its options (the cells that build    *)
(* them from the SCF wavefunction are not reproduced: they are the inputs  *)
(* of the solver); the rest are the notebook's variables.  loop_exit       *)
(* records how the for loop was left (the program keeps no such variable), *)
(* pc is the statement to execute next.                                    *)
(* C_scf keeps the coefficient matrix the loop starts from (the notebook   *)
(* overwrites C).  printed holds, per printed line, the format string and  *)
(* the values given to it; the rendering of the numbers is not modelled.   *)
(* expm_nonfinite is what the installed SciPy does when la.expm is given   *)
(* an infinite or NaN entry, "unobserved" until the first such call.       *)
(* transformed_at records the value iteration had when hmo and gmo were    *)
(* last assigned (the program keeps no such variable).                     *)
(***************************************************************************)
VARIABLES C_scf, nso, nocc, hao, gao, E_nuc, MAXITER,
          C, hmo, gmo, t_amp, E_OMP2_old, opdm_corr, opdm_ref, tpdm_corr, X,
          iteration, fprime, eps, opdm, tpdm, F, U, E_OMP2,
          printed, expm_nonfinite, loop_exit, transformed_at, pc

inputs == <<nso, nocc, hao, gao, E_nuc, MAXITER, C_scf>>
vars == <<C_scf, nso, nocc, hao, gao, E_nuc, MAXITER,
          C, hmo, gmo, t_amp, E_OMP2_old, opdm_corr, opdm_ref, tpdm_corr, X,
          iteration, fprime, eps, opdm, tpdm, F, U, E_OMP2,
          printed, expm_nonfinite, loop_exit, transformed_at, pc>>

(***************************************************************************)
(* Inputs explored.                                                        *)
(***************************************************************************)
\* symmetric 2x2 core Hamiltonian [[a, b], [b, c]]
Sym2(a, b, c) ==
    [p \in Idx(2), q \in Idx(2) |->
        FromInt(IF p # q THEN b ELSE IF p = 0 THEN a ELSE c)]

\* antisymmetrised two-electron integrals w * (d_pr d_qs - d_ps d_qr)
AntiSymUnit(w, n) ==
    [p \in Idx(n), q \in Idx(n), r \in Idx(n), s \in Idx(n) |->
        FromInt(w * ((IF p = r /\ q = s THEN 1 ELSE 0) - (IF p = s /\ q = r THEN 1 ELSE 0)))]

\* the integer entries drawn for hao and gao
Entries == -1 .. 1
\* off-diagonal entries of hao: zero, or a multiple of two
OffDiag == {0, 2, 4}
\* E_nuc: zero, exactly E_conv, and half of E_conv
Repulsions == {Zero, E_conv, <<1, 200000000>>}

\* initial coefficient matrices: identity, the two orbitals exchanged, and
\* one that is not orthonormal
Swap2 == [p \in Idx(2), q \in Idx(2) |-> IF p # q THEN One ELSE Zero]
Shear2 == [p \in Idx(2), q \in Idx(2) |-> IF p = 1 /\ q = 0 THEN Zero ELSE One]
Coefficients2 == {identity(2), Swap2}

\* two-electron integrals that violate g[p,q,r,s] = -g[q,p,r,s]
NotAntiSym(w, n) ==
    [k \in DOMAIN AntiSymUnit(w, n) |->
        IF k = <<0, 0, 0, 0>> THEN One ELSE AntiSymUnit(w, n)[k]]

(***************************************************************************)
(* The arithmetic is exact on 32-bit integers, so the inputs are those     *)
(* whose Newton-Raphson steps stay exactly representable: with one         *)
(* occupied and one virtual orbital X[1,0] = hmo[1,0]/(eps[0] - eps[1]),   *)
(* and the inputs kept are those where this quotient is 0, not finite, or  *)
(* +-2 (r_1 of the generator is then a quarter turn) in every iteration.   *)
(***************************************************************************)
Exact2(hmo0, gmo0) ==
    LET a == hmo0[0, 0][1]
        b == hmo0[1, 0][1]
        c == hmo0[1, 1][1]
        w == gmo0[1, 0, 1, 0][1]
        d1 == a - c - w
        d2 == c - a - w
    IN  \/ b = 0
        \/ d1 = 0
        \/ /\ IAbs(b) = 2 * IAbs(d1)
           /\ d2 = 0 \/ IAbs(b) = 2 * IAbs(d2)

\* two spin orbitals, one of them occupied
Inputs2 ==
    { in \in [nso : {2}, nocc : {1},
              hao : {Sym2(a, b, 0) : a \in Entries, b \in OffDiag},
              gao : {AntiSymUnit(w, 2) : w \in Entries},
              C : Coefficients2, E_nuc : Repulsions, MAXITER : 1 .. MaxMAXITER] :
        Exact2(ao_to_mo(in.hao, in.C, 2), ao_to_mo_tei(in.gao, in.C, 2)) }

\* malformed: no occupied or no virtual orbital, gao not antisymmetric, or
\* C not orthonormal (the last two with a diagonal hao)
InputsMalformed ==
    [nso : {2}, nocc : {0, 2},
     hao : {Sym2(a, b, 0) : a \in Entries, b \in {0, 1}},
     gao : {AntiSymUnit(1, 2)},
     C : {identity(2)}, E_nuc : {Zero, One}, MAXITER : 1 .. MaxMAXITER]
    \cup
    [nso : {2}, nocc : {1},
     hao : {Sym2(a, 0, 0) : a \in Entries},
     gao : {NotAntiSym(0, 2)},
     C : {identity(2)}, E_nuc : {Zero, One}, MAXITER : 1 .. MaxMAXITER]
    \cup
    [nso : {2}, nocc : {1},
     hao : {Sym2(a, 0, 0) : a \in Entries},
     gao : {AntiSymUnit(0, 2)},
     C : {Shear2}, E_nuc : {Zero, One}, MAXITER : 1 .. MaxMAXITER]

\* diagonal 4x4 core Hamiltonian
Diag4(e) == [p \in Idx(4), q \in Idx(4) |-> IF p = q THEN FromInt(e[p + 1]) ELSE Zero]

\* antisymmetrised integrals coupling the orbital pair (0,1) to the pair (2,3):
\* g[2,3,0,1] = g[0,1,2,3] = w, with the signs of the index exchanges
PairSign(p, q, lo) ==
    IF p = lo /\ q = lo + 1 THEN 1 ELSE IF p = lo + 1 /\ q = lo THEN -1 ELSE 0
AntiSymPair(w) ==
    [p \in Idx(4), q \in Idx(4), r \in Idx(4), s \in Idx(4) |->
        FromInt(w * (PairSign(p, q, 2) * PairSign(r, s, 0)
                     + PairSign(p, q, 0) * PairSign(r, s, 2)))]

\* orbitals 0 and 1 exchanged
Swap4 ==
    [p \in Idx(4), q \in Idx(4) |->
        IF (p = q /\ p >= 2) \/ (p + q = 1) THEN One ELSE Zero]

\* four spin orbitals, two of them occupied; the amplitudes are not zero and
\* the orbital gradient vanishes
Inputs4 ==
    [nso : {4}, nocc : {2},
     hao : {Diag4(e) : e \in {<<-1, -1, 1, 1>>, <<0, 0, 0, 0>>, <<1, 2, -2, -1>>}},
     gao : {AntiSymPair(1)},
     C : {identity(4), Swap4}, E_nuc : {Zero}, MAXITER : {2}]

Inputs == Inputs2 \cup InputsMalformed \cup Inputs4

Init ==
    \E in \in Inputs :
        /\ nso = in.nso
        /\ nocc = in.nocc
        /\ hao = in.hao
        /\ gao = in.gao
        /\ E_nuc = in.E_nuc
        /\ MAXITER = in.MAXITER
        /\ C = in.C
        /\ C_scf = in.C
        /\ hmo = zeros2(in.nso)
        /\ gmo = zeros4(in.nso)
        /\ t_amp = [a \in VirtSlice(in.nso, in.nocc), b \in VirtSlice(in.nso, in.nocc),
                    i \in OccSlice(in.nocc), j \in OccSlice(in.nocc) |-> Zero]
        /\ E_OMP2_old = Zero
        /\ opdm_corr = zeros2(in.nso)
        /\ opdm_ref = zeros2(in.nso)
        /\ tpdm_corr = zeros4(in.nso)
        /\ X = zeros2(in.nso)
        /\ iteration = -1
        /\ fprime = zeros2(in.nso)
        /\ eps = [p \in Idx(in.nso) |-> Zero]
        /\ opdm = zeros2(in.nso)
        /\ tpdm = zeros4(in.nso)
        /\ F = zeros2(in.nso)
        /\ U = zeros2(in.nso)
        /\ E_OMP2 = Zero
        /\ printed = <<>>
        /\ expm_nonfinite = "unobserved"
        /\ loop_exit = "none"
        /\ transformed_at = -1
        /\ pc = "setup"

(***************************************************************************)
(* Statements.                                                             *)
(***************************************************************************)
\* hmo = ao_to_mo(hao, C); gmo = ao_to_mo_tei(gao, C), then the
\* initialisations that precede the loop
Setup ==
    /\ pc = "setup"
    /\ hmo' = ao_to_mo(hao, C, nso)
    /\ gmo' = ao_to_mo_tei(gao, C, nso)
    /\ t_amp' = [k \in DOMAIN t_amp |-> Zero]
    /\ E_OMP2_old' = Zero
    /\ opdm_corr' = zeros2(nso)
    /\ opdm_ref' = OpdmRef(nso, nocc)
    /\ tpdm_corr' = zeros4(nso)
    /\ X' = zeros2(nso)
    /\ transformed_at' = iteration
    /\ pc' = "for"
    /\ UNCHANGED <<inputs, expm_nonfinite, C, iteration, fprime, eps, opdm, tpdm, F, U, E_OMP2,
                   printed, loop_exit>>

\* a range that includes its stop value
range_inclusive(stop) == 0 .. stop

\* range(stop)
range(stop) == 0 .. (stop - 1)

\* for iteration in range(MAXITER): next value, or the range is exhausted
ForIteration ==
    /\ pc = "for"
    /\ IF iteration + 1 \in range(MAXITER)
       THEN /\ iteration' = iteration + 1
            /\ pc' = "fock"
            /\ UNCHANGED loop_exit
       ELSE /\ pc' = "done"
            /\ loop_exit' = "exhausted"
            /\ UNCHANGED iteration
    /\ UNCHANGED <<inputs, transformed_at,
                   expm_nonfinite, C, hmo, gmo, t_amp, E_OMP2_old, opdm_corr, opdm_ref,
                   tpdm_corr, X, fprime, eps, opdm, tpdm, F, U, E_OMP2, printed>>

\* Build the Fock matrix, the off-diagonal Fock matrix and orbital energies
BuildFock ==
    /\ pc = "fock"
    /\ LET f == Fock(hmo, gmo, nso, nocc)
       IN  /\ fprime' = OffDiagonal(f, nso)
           /\ eps' = Diagonal(f, nso)
    /\ pc' = "amp"
    /\ UNCHANGED <<inputs, transformed_at,
                   expm_nonfinite, C, hmo, gmo, t_amp, E_OMP2_old, opdm_corr, opdm_ref,
                   tpdm_corr, X, iteration, opdm, tpdm, F, U, E_OMP2, printed, loop_exit>>

\* Update t amplitudes and divide by the 4D tensor of orbital energies
UpdateAmplitudes ==
    /\ pc = "amp"
    /\ t_amp' = UpdateAmp(gmo, fprime, eps, t_amp, nso, nocc)
    /\ pc' = "opdm"
    /\ UNCHANGED <<inputs, transformed_at,
                   expm_nonfinite, C, hmo, gmo, E_OMP2_old, opdm_corr, opdm_ref,
                   tpdm_corr, X, iteration, fprime, eps, opdm, tpdm, F, U, E_OMP2,
                   printed, loop_exit>>

\* Build one particle density matrix
BuildOPDM ==
    /\ pc = "opdm"
    /\ opdm_corr' = BuildOpdmCorr(opdm_corr, t_amp, nso, nocc)
    /\ opdm' = MatAdd(opdm_corr', opdm_ref, nso)
    /\ pc' = "tpdm"
    /\ UNCHANGED <<inputs, transformed_at,
                   expm_nonfinite, C, hmo, gmo, t_amp, E_OMP2_old, opdm_ref,
                   tpdm_corr, X, iteration, fprime, eps, tpdm, F, U, E_OMP2,
                   printed, loop_exit>>

\* Build two particle density matrix
BuildTPDM ==
    /\ pc = "tpdm"
    /\ tpdm_corr' = BuildTpdmCorr(tpdm_corr, t_amp, nso, nocc)
    /\ tpdm' = BuildTpdm(tpdm_corr', opdm_corr, opdm_ref, nso)
    /\ pc' = "newton"
    /\ UNCHANGED <<inputs, transformed_at,
                   expm_nonfinite, C, hmo, gmo, t_amp, E_OMP2_old, opdm_corr, opdm_ref,
                   X, iteration, fprime, eps, opdm, F, U, E_OMP2, printed, loop_exit>>

\* Newton-Raphson step
NewtonRaphson ==
    /\ pc = "newton"
    /\ F' = GeneralizedFock(hmo, gmo, opdm, tpdm, nso)
    /\ X' = NewtonStep(X, F', eps, nso, nocc)
    /\ pc' = "expm"
    /\ UNCHANGED <<inputs, transformed_at,
                   expm_nonfinite, C, hmo, gmo, t_amp, E_OMP2_old, opdm_corr, opdm_ref,
                   tpdm_corr, iteration, fprime, eps, opdm, tpdm, U, E_OMP2,
                   printed, loop_exit>>

\* Build Newton-Raphson orbital rotation matrix: U = la.expm(X - X.T).
\* On a generator with an infinite or NaN entry la.expm either raises
\* (the releases whose scaling step converts a NaN norm to an integer) or
\* returns NaN entries (the releases that do no such conversion); one
\* installation does the same thing at every call.
BuildRotation ==
    /\ pc = "expm"
    /\ \/ /\ AllFinite(Generator(X, nso))
          /\ U' = expm(Generator(X, nso), nso)
          /\ pc' = "rotate"
          /\ UNCHANGED <<loop_exit, expm_nonfinite>>
       \/ /\ ~AllFinite(Generator(X, nso))
          /\ expm_nonfinite \in {"unobserved", "returns nan"}
          /\ expm_nonfinite' = "returns nan"
          /\ U' = AllNaN(U)
          /\ pc' = "rotate"
          /\ UNCHANGED loop_exit
       \/ /\ ~AllFinite(Generator(X, nso))
          /\ expm_nonfinite \in {"unobserved", "raises"}
          /\ expm_nonfinite' = "raises"
          /\ pc' = "raised"
          /\ loop_exit' = "raised"
          /\ UNCHANGED U
    /\ UNCHANGED <<inputs, transformed_at,
                   C, hmo, gmo, t_amp, E_OMP2_old, opdm_corr, opdm_ref,
                   tpdm_corr, X, iteration, fprime, eps, opdm, tpdm, F, E_OMP2, printed>>

\* Rotate spin-orbital coefficients
RotateCoefficients ==
    /\ pc = "rotate"
    /\ C' = dot(C, U, nso)
    /\ pc' = "transform"
    /\ UNCHANGED <<inputs, transformed_at,
                   expm_nonfinite, hmo, gmo, t_amp, E_OMP2_old, opdm_corr, opdm_ref,
                   tpdm_corr, X, iteration, fprime, eps, opdm, tpdm, F, U, E_OMP2,
                   printed, loop_exit>>

\* the re-transform carried out ahead of the rotation: the integrals of the
\* unrotated C, which are the ones hmo and gmo hold already
TransformIntegrals_before_rotation ==
    /\ pc = "transform"
    /\ transformed_at' = iteration
    /\ pc' = "energy"
    /\ UNCHANGED <<inputs, expm_nonfinite, C, hmo, gmo, t_amp, E_OMP2_old, opdm_corr, opdm_ref,
                   tpdm_corr, X, iteration, fprime, eps, opdm, tpdm, F, U, E_OMP2,
                   printed, loop_exit>>

\* the re-transform without its first statement: gmo is transformed with the
\* new C, hmo is not
TransformIntegrals_gmo_only ==
    /\ pc = "transform"
    /\ gmo' = ao_to_mo_tei(gao, C, nso)
    /\ transformed_at' = iteration
    /\ pc' = "energy"
    /\ UNCHANGED <<inputs, expm_nonfinite, C, hmo, t_amp, E_OMP2_old, opdm_corr, opdm_ref,
                   tpdm_corr, X, iteration, fprime, eps, opdm, tpdm, F, U, E_OMP2,
                   printed, loop_exit>>

\* Transform one and two electron integrals using new C
TransformIntegrals ==
    /\ pc = "transform"
    /\ hmo' = ao_to_mo(hao, C, nso)
    /\ gmo' = ao_to_mo_tei(gao, C, nso)
    /\ transformed_at' = iteration
    /\ pc' = "energy"
    /\ UNCHANGED <<inputs, expm_nonfinite, C, t_amp, E_OMP2_old, opdm_corr, opdm_ref,
                   tpdm_corr, X, iteration, fprime, eps, opdm, tpdm, F, U, E_OMP2,
                   printed, loop_exit>>

\* the format string of the only print call in the loop
IterationLine == "OMP2 iteration: %3d Energy: %15.8f dE: %2.5E"

\* Compute the energy and print the iteration line
ComputeEnergy ==
    /\ pc = "energy"
    /\ E_OMP2' = Energy(E_nuc, hmo, gmo, opdm, tpdm, nso)
    /\ printed' = Append(printed, [format |-> IterationLine, iteration |-> iteration,
                                   Energy |-> E_OMP2', dE |-> Sub(E_OMP2', E_OMP2_old)])
    /\ pc' = "test"
    /\ UNCHANGED <<inputs, transformed_at,
                   expm_nonfinite, C, hmo, gmo, t_amp, E_OMP2_old, opdm_corr, opdm_ref,
                   tpdm_corr, X, iteration, fprime, eps, opdm, tpdm, F, U, loop_exit>>

\* the test without the absolute value
Converged_signed(E_new, E_old) == Less(Sub(E_new, E_old), E_conv)

\* (abs(E_OMP2-E_OMP2_old)) < E_conv
Converged(E_new, E_old) == Less(FAbs(Sub(E_new, E_old)), E_conv)

\* if converged: break; otherwise E_OMP2_old = E_OMP2 and back to the for
TestConvergence ==
    /\ pc = "test"
    /\ IF Converged(E_OMP2, E_OMP2_old)
       THEN /\ pc' = "done"
            /\ loop_exit' = "break"
            /\ UNCHANGED E_OMP2_old
       ELSE /\ E_OMP2_old' = E_OMP2
            /\ pc' = "for"
            /\ UNCHANGED loop_exit
    /\ UNCHANGED <<inputs, transformed_at,
                   expm_nonfinite, C, hmo, gmo, t_amp, opdm_corr, opdm_ref,
                   tpdm_corr, X, iteration, fprime, eps, opdm, tpdm, F, U, E_OMP2, printed>>

Next ==
    \/ Setup
    \/ ForIteration
    \/ BuildFock
    \/ UpdateAmplitudes
    \/ BuildOPDM
    \/ BuildTPDM
    \/ NewtonRaphson
    \/ BuildRotation
    \/ RotateCoefficients
    \/ TransformIntegrals
    \/ ComputeEnergy
    \/ TestConvergence

Spec == Init /\ [][Next]_vars

\* The interpreter executes the statement it is at.  Every statement's action
\* is enabled whenever pc names it (only BuildRotation looks at other state,
\* and its three cases cover every state), so the fairness condition is put
\* on leaving the statement.
Statements ==
    {"setup", "for", "fock", "amp", "opdm", "tpdm", "newton", "expm", "rotate",
     "transform", "energy", "test"}
Execute ==
    /\ pc \in Statements
    /\ pc' \in (Statements \cup {"done", "raised"}) \ {pc}
FairSpec == Spec /\ WF_pc(Execute)

(***************************************************************************)
(* The same program entered with other leftovers.  Between two iterations  *)
(* the arrays that the coming iteration assigns before it reads them (eps, *)
(* fprime, opdm, tpdm) and the blocks of opdm_corr, tpdm_corr and X that   *)
(* it assigns may be overwritten with any content; C, t_amp, E_OMP2_old,   *)
(* hmo, gmo and the blocks that are never assigned are left alone.         *)
(***************************************************************************)
\* contents the leftovers are overwritten with
Junk == {One, NaN}

ScrambleLeftovers ==
    /\ pc = "for"
    /\ \E J \in Junk :
        LET o == OccSlice(nocc)
            v == VirtSlice(nso, nocc)
        IN  /\ eps' = [p \in Idx(nso) |-> J]
            /\ fprime' = [k \in DOMAIN fprime |-> J]
            /\ opdm' = [k \in DOMAIN opdm |-> J]
            /\ tpdm' = [k \in DOMAIN tpdm |-> J]
            /\ opdm_corr' = [p \in Idx(nso), q \in Idx(nso) |->
                    IF (p \in v /\ q \in v) \/ (p \in o /\ q \in o)
                    THEN J ELSE opdm_corr[p, q]]
            /\ tpdm_corr' = [p \in Idx(nso), q \in Idx(nso), r \in Idx(nso), u \in Idx(nso) |->
                    IF \/ p \in v /\ q \in v /\ r \in o /\ u \in o
                       \/ p \in o /\ q \in o /\ r \in v /\ u \in v
                    THEN J ELSE tpdm_corr[p, q, r, u]]
            /\ X' = [p \in Idx(nso), q \in Idx(nso) |->
                    IF p \in v /\ q \in o THEN J ELSE X[p, q]]
    /\ UNCHANGED <<inputs, transformed_at, expm_nonfinite, C, hmo, gmo, t_amp, E_OMP2_old,
                   opdm_ref, iteration, F, U, E_OMP2, printed, loop_exit, pc>>

LeftoverNext == Next \/ ScrambleLeftovers

LeftoverSpec == Init /\ [][LeftoverNext]_vars

(***************************************************************************)
(* Properties.                                                             *)
(***************************************************************************)
\* the energies evaluated so far, one per completed energy evaluation
Energies == [k \in DOMAIN printed |-> printed[k].Energy]

\* the energy evaluated in the iteration before the k-th one, 0.0 for the first
PrevEnergy(k) == IF k = 1 THEN Zero ELSE Energies[k - 1]

\* |E_k - E_prev| < energy tolerance, for the k-th evaluated energy
WithinTolerance(k) == Less(FAbs(Sub(Energies[k], PrevEnergy(k))), E_conv)

Terminated == pc \in {"done", "raised"}

\* M^T M = identity
Orthonormal(M, n) ==
    \A p \in Idx(n), q \in Idx(n) :
        FEq(SumSet([k \in Idx(n) |-> Mul(M[k, p], M[k, q])], Idx(n)),
            IF p = q THEN One ELSE Zero)

\* g[p,q,r,s] = -g[q,p,r,s] = -g[p,q,s,r]
AntiSymmetric(g, n) ==
    \A p \in Idx(n), q \in Idx(n), r \in Idx(n), s \in Idx(n) :
        /\ FEq(g[p, q, r, s], Neg(g[q, p, r, s]))
        /\ FEq(g[p, q, r, s], Neg(g[p, q, s, r]))

\* the inputs meet the solver's contract
WellFormedInput ==
    /\ 0 < nocc
    /\ nocc < nso
    /\ AntiSymmetric(gao, nso)
    /\ Orthonormal(C_scf, nso)

\* C1: when the for loop runs out of iterations without the convergence test
\* having succeeded (on a well-formed input, all energies finite), something
\* other than the per-iteration lines is reported (a MAX-ITERATIONS-EXCEEDED
\* outcome).
C1_MaxIterationsReported ==
    (/\ pc = "done"
     /\ loop_exit = "exhausted"
     /\ WellFormedInput
     /\ \A k \in DOMAIN printed : IsFinite(Energies[k])) =>
        \E k \in DOMAIN printed : printed[k].format # IterationLine

\* C2: the driver eventually stops; it enters at least 1 and at most MAXITER
\* iterations, evaluates the energy at most once per iteration entered and
\* exactly once per iteration completed; it takes no step once it has
\* stopped, and the step after a successful convergence test is the stop.
C2_StopsWithinMaxiter ==
    /\ <>Terminated
    /\ [](/\ iteration + 1 <= MAXITER
          /\ Len(printed) <= iteration + 1
          /\ Terminated => /\ 1 <= iteration + 1
                           /\ loop_exit # "raised" => Len(printed) = iteration + 1)
    /\ [][/\ ~Terminated
          /\ (pc = "test" /\ WithinTolerance(Len(printed))) => pc' = "done"]_vars

\* C2 witness: the loop ran MAXITER > 1 iterations and was exhausted.
C2_Witness ==
    /\ pc = "done"
    /\ loop_exit = "exhausted"
    /\ MAXITER > 1
    /\ Len(printed) = MAXITER

\* C3: the driver converges at iteration k exactly when k is the first
\* iteration with |E_k - E_prev| < E_conv, E_prev being the energy of
\* iteration k-1 (0.0 for the first); E_prev is assigned only after a failed
\* test, and then the driver goes on to the next iteration.
C3_ConvergesAtFirstWithinTolerance ==
    /\ [](/\ \A k \in DOMAIN printed :
                WithinTolerance(k) =>
                    k = Len(printed) /\ (pc = "test" \/ loop_exit = "break")
          /\ loop_exit = "break" =>
                Len(printed) = iteration + 1 /\ WithinTolerance(Len(printed))
          /\ pc = "test" =>
                /\ Len(printed) = iteration + 1
                /\ E_OMP2 = Energies[iteration + 1]
                /\ E_OMP2_old = PrevEnergy(iteration + 1))
    /\ [][/\ E_OMP2_old' # E_OMP2_old =>
                pc = "test" /\ ~WithinTolerance(Len(printed)) /\ E_OMP2_old' = E_OMP2
          /\ (pc = "test" /\ ~WithinTolerance(Len(printed))) =>
                pc' = "for" /\ loop_exit' = "none" /\ E_OMP2_old' = E_OMP2]_vars

\* C3 witness: the second iteration converged after the first had failed the
\* test with a nonzero energy.
C3_Witness ==
    /\ loop_exit = "break"
    /\ Len(printed) = 2
    /\ ~WithinTolerance(1)
    /\ WithinTolerance(2)

\* C4: for a well-formed input the driver does not converge in the first
\* iteration (iteration index 0).
C4_FirstIterationNeverConverges ==
    (WellFormedInput /\ loop_exit = "break") => iteration >= 1

\* t[a,b,i,j] = -t[b,a,i,j] = -t[a,b,j,i] on the virtual and occupied ranges
AmplitudesAntisymmetric ==
    \A a \in VirtSlice(nso, nocc), b \in VirtSlice(nso, nocc),
       i \in OccSlice(nocc), j \in OccSlice(nocc) :
        /\ FEq(t_amp[a, b, i, j], Neg(t_amp[b, a, i, j]))
        /\ FEq(t_amp[a, b, i, j], Neg(t_amp[a, b, j, i]))

\* some occupied orbital energy exceeds some virtual orbital energy
InvertedOrdering ==
    \E i \in OccSlice(nocc), a \in VirtSlice(nso, nocc) : Less(eps[a], eps[i])

\* C5: on a well-formed input no infinite or NaN value is ever held by
\* t_amp, X, C or E_OMP2 (a division by a zero denominator produces one).
C5_NoNonFiniteValue ==
    WellFormedInput =>
        AllFinite(t_amp) /\ AllFinite(X) /\ AllFinite(C) /\ IsFinite(E_OMP2)

\* C6: with inverted orbital energies the amplitude update does not return
\* a finite amplitude tensor (it reports a degeneracy error instead).
C6_InvertedOrderingRejected ==
    ~(/\ pc = "opdm"
      /\ WellFormedInput
      /\ InvertedOrdering
      /\ AllFinite(t_amp))

\* C7: on a malformed input (nocc not strictly between 0 and nso, gao not
\* antisymmetric, C not orthonormal) the loop is never entered.
C7_MalformedInputRejected ==
    ~WellFormedInput => iteration = -1 /\ printed = <<>>

\* C8: on a well-formed input (gao antisymmetric) the amplitudes are
\* antisymmetric in both index pairs, initially and after every update.
C8_AmplitudesStayAntisymmetric ==
    WellFormedInput => AmplitudesAntisymmetric

\* C9: on a well-formed input (gao antisymmetric) gmo is antisymmetric in
\* both index pairs before and after every iteration.
C9_IntegralsStayAntisymmetric ==
    WellFormedInput => AntiSymmetric(gmo, nso)

\* C10: if the initial C is orthonormal, C is orthonormal after the update
\* of every iteration.
C10_CoefficientsStayOrthonormal ==
    WellFormedInput => Orthonormal(C, nso)

(***************************************************************************)
(* What holds of the runs in which every value is finite.                  *)
(***************************************************************************)
AmplitudesAntisymmetricWhileFinite ==
    (WellFormedInput /\ AllFinite(t_amp)) => AmplitudesAntisymmetric

IntegralsAntisymmetricWhileFinite ==
    (AntiSymmetric(gao, nso) /\ AllFinite(C)) => AntiSymmetric(gmo, nso)

OrthonormalWhileFinite ==
    (Orthonormal(C_scf, nso) /\ AllFinite(C)) =>
        Orthonormal(C, nso) /\ ((pc = "rotate" /\ AllFinite(U)) => Orthonormal(U, nso))

(***************************************************************************)
(* The orbital rotation.                                                   *)
(***************************************************************************)
\* F is the generalized Fock matrix of the iteration under way
FockIsCurrent == pc \in {"expm", "rotate", "transform", "energy", "test"}

\* the orbital gradient (F - F.T)[v, o] is exactly zero
GradientZero ==
    \A a \in VirtSlice(nso, nocc), i \in OccSlice(nocc) :
        FEq(Sub(F[a, i], F[i, a]), Zero)

\* C11: in an iteration whose orbital gradient is exactly zero, X is the zero
\* matrix, U is the identity, the rotation leaves C as it was and the
\* re-transform leaves hmo and gmo as they were at the start of the
\* iteration (C is assigned by the rotation only, hmo and gmo by the
\* transforms only).
C11_ZeroGradientIsNoOp ==
    /\ []((FockIsCurrent /\ GradientZero) =>
            /\ X = zeros2(nso)
            /\ pc # "expm" => U = identity(nso))
    /\ [][/\ (pc = "rotate" /\ GradientZero) => C' = C
          /\ (pc = "transform" /\ GradientZero) => hmo' = hmo /\ gmo' = gmo
          /\ C' # C => pc = "rotate"
          /\ (hmo' # hmo \/ gmo' # gmo) => pc \in {"setup", "transform"}]_vars

\* C11 witness: an iteration with nonzero amplitudes and a zero gradient has
\* been carried through to its convergence test.
C11_Witness ==
    /\ pc = "test"
    /\ WellFormedInput
    /\ GradientZero
    /\ \E k \in DOMAIN t_amp : IsFinite(t_amp[k]) /\ t_amp[k] # Zero

(***************************************************************************)
(* The order of the statements.                                            *)
(***************************************************************************)
\* the statement executed and the one executed next, as the loop lays them out
StepOrder ==
    {<<"setup", "for">>, <<"for", "fock">>, <<"for", "done">>, <<"fock", "amp">>,
     <<"amp", "opdm">>, <<"opdm", "tpdm">>, <<"tpdm", "newton">>, <<"newton", "expm">>,
     <<"expm", "rotate">>, <<"expm", "raised">>, <<"rotate", "transform">>,
     <<"transform", "energy">>, <<"energy", "test">>, <<"test", "for">>,
     <<"test", "done">>}

\* C12: the statements follow one another in the fixed order Fock build,
\* amplitude update, density builds, generalized Fock, rotation, C update,
\* re-transform, energy, convergence test (an exception raised by la.expm
\* ends the run); the iteration index advances only from the for statement,
\* which is reached only from the set-up or from a convergence test; every
\* variable is assigned by its own statement only, so each is assigned at
\* most once per iteration; and the energy at the test is the one of the
\* integrals of the rotated C with the densities as they were before the
\* rotation.
C12_FixedStepOrder ==
    /\ [](pc = "test" =>
            E_OMP2 = Energy(E_nuc, ao_to_mo(hao, C, nso), ao_to_mo_tei(gao, C, nso),
                            opdm, tpdm, nso))
    /\ [][/\ <<pc, pc'>> \in StepOrder
          /\ iteration' # iteration => pc = "for" /\ pc' = "fock"
          /\ (pc = "for" /\ pc' = "fock") => iteration' = iteration + 1
          /\ (fprime' # fprime \/ eps' # eps) => pc = "fock"
          /\ t_amp' # t_amp => pc = "amp"
          /\ (opdm_corr' # opdm_corr \/ opdm' # opdm) => pc = "opdm"
          /\ (tpdm_corr' # tpdm_corr \/ tpdm' # tpdm) => pc = "tpdm"
          /\ (F' # F \/ X' # X) => pc = "newton"
          /\ U' # U => pc = "expm"
          /\ C' # C => pc = "rotate"
          /\ (hmo' # hmo \/ gmo' # gmo) => pc \in {"setup", "transform"}
          /\ (E_OMP2' # E_OMP2 \/ printed' # printed) => pc = "energy"
          /\ E_OMP2_old' # E_OMP2_old => pc = "test"
          /\ pc = "energy" => Len(printed') = Len(printed) + 1]_vars

\* C12 witness: the second iteration has reached its convergence test with
\* a finite energy, the coefficients having been rotated away from the
\* initial ones.
C12_Witness ==
    /\ pc = "test"
    /\ iteration = 1
    /\ WellFormedInput
    /\ IsFinite(E_OMP2)
    /\ C # C_scf

(***************************************************************************)
(* Where the transformed integrals come from.                              *)
(***************************************************************************)
\* the statements that read hmo or gmo
IntegralUses == {"fock", "amp", "newton", "energy"}

\* C13, as stated: every statement that reads hmo or gmo reads values
\* assigned within the iteration under way.
C13_IntegralsAssignedWithinIteration ==
    pc \in IntegralUses => transformed_at = iteration

\* C13, amended: the Fock build, the amplitude update and the generalized
\* Fock of an iteration read the hmo and gmo assigned by the re-transform of
\* the iteration before (by the initial transform in the first iteration),
\* the energy reads those assigned in its own iteration; at each of these
\* uses hmo and gmo are the transforms of hao and gao with the current C.
C13_IntegralsAreThoseOfCurrentC ==
    pc \in IntegralUses =>
        /\ transformed_at = (IF pc = "energy" THEN iteration ELSE iteration - 1)
        /\ hmo = ao_to_mo(hao, C, nso)
        /\ gmo = ao_to_mo_tei(gao, C, nso)

\* C13 witness: the Fock build of the second iteration is about to read the
\* integrals the first iteration assigned, those of its rotated C.
C13_Witness ==
    /\ pc = "fock"
    /\ iteration = 1
    /\ transformed_at = 0
    /\ AllFinite(C)
    /\ C # C_scf

(***************************************************************************)
(* What an iteration owes to the one before it.  The run without any       *)
(* overwriting, as a function of the inputs: the values the loop variables *)
(* have at the k-th convergence test, obtained by applying the statements  *)
(* of the loop body to the values the k-th iteration is entered with.      *)
(***************************************************************************)
\* the values after the initial transform and the initialisations
AfterSetup ==
    [C |-> C_scf,
     hmo |-> ndarray(ao_to_mo(hao, C_scf, nso)),
     gmo |-> ndarray(ao_to_mo_tei(gao, C_scf, nso)),
     t_amp |-> [k \in DOMAIN t_amp |-> Zero],
     E_OMP2_old |-> Zero,
     E_OMP2 |-> Zero,
     opdm_corr |-> zeros2(nso),
     tpdm_corr |-> zeros4(nso),
     X |-> zeros2(nso)]

\* from the Fock build to the Newton-Raphson step
LoopHead(s) ==
    LET f == ndarray(Fock(s.hmo, s.gmo, nso, nocc))
        fprime_ == ndarray(OffDiagonal(f, nso))
        eps_ == ndarray(Diagonal(f, nso))
        t_ == ndarray(UpdateAmp(s.gmo, fprime_, eps_, s.t_amp, nso, nocc))
        opdm_corr_ == ndarray(BuildOpdmCorr(s.opdm_corr, t_, nso, nocc))
        opdm_ == ndarray(MatAdd(opdm_corr_, OpdmRef(nso, nocc), nso))
        tpdm_corr_ == ndarray(BuildTpdmCorr(s.tpdm_corr, t_, nso, nocc))
        tpdm_ == ndarray(BuildTpdm(tpdm_corr_, opdm_corr_, OpdmRef(nso, nocc), nso))
        F_ == ndarray(GeneralizedFock(s.hmo, s.gmo, opdm_, tpdm_, nso))
        X_ == ndarray(NewtonStep(s.X, F_, eps_, nso, nocc))
    IN  [C |-> s.C, hmo |-> s.hmo, gmo |-> s.gmo, t_amp |-> t_,
         E_OMP2_old |-> s.E_OMP2_old, E_OMP2 |-> s.E_OMP2,
         opdm_corr |-> opdm_corr_, tpdm_corr |-> tpdm_corr_, X |-> X_,
         opdm |-> opdm_, tpdm |-> tpdm_]

\* from la.expm to the energy, la.expm returning NaN on a non-finite generator
LoopTail(s) ==
    LET U_ == IF AllFinite(Generator(s.X, nso))
              THEN ndarray(expm(Generator(s.X, nso), nso))
              ELSE [k \in DOMAIN s.X |-> NaN]
        C_ == ndarray(dot(s.C, U_, nso))
        hmo_ == ndarray(ao_to_mo(hao, C_, nso))
        gmo_ == ndarray(ao_to_mo_tei(gao, C_, nso))
    IN  [C |-> C_, hmo |-> hmo_, gmo |-> gmo_, t_amp |-> s.t_amp,
         E_OMP2_old |-> s.E_OMP2_old,
         E_OMP2 |-> Energy(E_nuc, hmo_, gmo_, s.opdm, s.tpdm, nso),
         opdm_corr |-> s.opdm_corr, tpdm_corr |-> s.tpdm_corr, X |-> s.X]

\* the values the k-th iteration is entered with (k = 1 for the first), and
\* those at its convergence test
RECURSIVE Entering(_)
Entering(k) ==
    IF k = 1 THEN AfterSetup
    ELSE LET e == LoopTail(LoopHead(Entering(k - 1)))
         IN  [e EXCEPT !.E_OMP2_old = e.E_OMP2]
AtTest(k) == LoopTail(LoopHead(Entering(k)))

\* the blocks of opdm_corr, tpdm_corr and X that no statement assigns are zero
UnwrittenBlocksZero ==
    LET o == OccSlice(nocc)
        v == VirtSlice(nso, nocc)
    IN  /\ \A p \in Idx(nso), q \in Idx(nso) :
            /\ ~((p \in v /\ q \in v) \/ (p \in o /\ q \in o)) => opdm_corr[p, q] = Zero
            /\ ~(p \in v /\ q \in o) => X[p, q] = Zero
        /\ \A p \in Idx(nso), q \in Idx(nso), r \in Idx(nso), u \in Idx(nso) :
            ~(\/ p \in v /\ q \in v /\ r \in o /\ u \in o
              \/ p \in o /\ q \in o /\ r \in v /\ u \in v) => tpdm_corr[p, q, r, u] = Zero

\* C14: whatever the leftover contents of eps, fprime, opdm, tpdm and of the
\* assigned blocks of opdm_corr, tpdm_corr and X an iteration is entered
\* with, its amplitudes and step X, and at its convergence test C, t_amp,
\* the energy and the energy it is compared with (hence the decision), are
\* those of the run in which nothing was overwritten; the blocks no
\* statement assigns are zero in every reachable state.
C14_NoMemoryButAmplitudesAndCoefficients ==
    /\ UnwrittenBlocksZero
    /\ pc \in {"opdm", "tpdm", "newton", "expm"} =>
            LET h == LoopHead(Entering(iteration + 1))
            IN  t_amp = h.t_amp /\ (pc = "expm" => X = h.X)
    /\ pc = "test" =>
            LET r == AtTest(iteration + 1)
            IN  /\ C = r.C
                /\ t_amp = r.t_amp
                /\ E_OMP2 = r.E_OMP2
                /\ E_OMP2_old = r.E_OMP2_old
                /\ Converged(E_OMP2, E_OMP2_old) <=> Converged(r.E_OMP2, r.E_OMP2_old)

\* C14 witness: the second iteration was entered with NaN written over the
\* leftovers, X still holds it, and the amplitudes have been updated to
\* finite values that are not all zero.
C14_Witness ==
    /\ pc = "newton"
    /\ iteration = 1
    /\ WellFormedInput
    /\ \A a \in VirtSlice(nso, nocc), i \in OccSlice(nocc) : IsNaN(X[a, i])
    /\ AllFinite(t_amp)
    /\ \E k \in DOMAIN t_amp : t_amp[k] # Zero

(***************************************************************************)
(* The trace of the one-particle density.                                  *)
(***************************************************************************)
Trace(M, n) == SumSet([p \in Idx(n) |-> M[p, p]], Idx(n))

\* the one-particle density of the iteration under way has been built
DensityBuilt ==
    pc \in {"tpdm", "newton", "expm", "rotate", "transform", "energy", "test"}

\* opdm_corr is traceless with zero ov and vo blocks, and the trace of opdm
\* is the number of occupied spin orbitals
TraceIsNocc ==
    /\ FEq(Trace(opdm_corr, nso), Zero)
    /\ \A i \in OccSlice(nocc), a \in VirtSlice(nso, nocc) :
            opdm_corr[i, a] = Zero /\ opdm_corr[a, i] = Zero
    /\ FEq(Trace(opdm, nso), FromInt(nocc))

\* C15: on a well-formed input, after every density build opdm_corr is
\* traceless with zero ov and vo blocks and the trace of opdm is N_occ,
\* whatever the amplitudes.
C15_DensityTraceIsNocc ==
    (WellFormedInput /\ DensityBuilt) => TraceIsNocc

\* the same of the states whose amplitudes are all finite, on any input
TraceIsNoccWhileFinite ==
    (DensityBuilt /\ AllFinite(t_amp)) => TraceIsNocc

=============================================================================
